---- MODULE Spec2Model ----
(***************************************************************************)
(* Model of elyra/metadata/metadata.py: the file-backed metadata store     *)
(* (FileMetadataStore), the Metadata document class and the SchemaManager  *)
(* singleton.  One store instance for the namespace "runtimes" is modelled *)
(* over a two-directory search path (the writable data directory first,    *)
(* then one additional root that the store never writes).                  *)
(*                                                                         *)
(* Names are sequences of one-character strings, so that the name regex of *)
(* save can be evaluated character by character.                           *)
(*                                                                         *)
(* Spec is the store and the cache, one call at a time.  SpecName is the   *)
(* name check of save alone, SpecCache the SchemaManager alone, SpecGetter *)
(* a get_schema call beside the calls of another thread, and SpecSaves two *)
(* save calls that run side by side.                                       *)
(***************************************************************************)
EXTENDS Integers, Sequences, FiniteSets, TLC

VARIABLES fs, namespace_schemas, environ, last, getter, thr, nameIn, nameOut

vars == <<fs, namespace_schemas, environ, last, getter, thr, nameIn, nameOut>>

-----------------------------------------------------------------------------
(* Bounds of the model *)

\* longest name enumerated exhaustively for the name regex
MaxLen == 3
\* payloads ("metadata" dictionaries) are the values 1..NumPayloads
NumPayloads == 2

-----------------------------------------------------------------------------
(* Program constants *)

METADATA_TEST_NAMESPACE == "metadata-tests"
DEFAULT_SCHEMA_NAME == "kfp"
NAMESPACE_RUNTIMES == "runtimes"

-----------------------------------------------------------------------------
(* Characters and names *)

Lower == {"a", "b", "c", "f", "o", "r"}
Digits == {"9"}
\* the characters names are enumerated over: a lowercase letter, a digit, the
\* two separators, an uppercase letter, a blank, a comma and a line feed
Alphabet == {"a", "9", "-", "_", "A", " ", ",", "\n"}

RECURSIVE StringsUpTo(_)
StringsUpTo(n) ==
    IF n = 0 THEN {<<>>}
    ELSE LET shorter == StringsUpTo(n - 1)
         IN  shorter \cup {Append(s, c) : s \in {t \in shorter : Len(t) = n - 1}, c \in Alphabet}

N_empty == <<>>
N_blank == <<" ">>
N_a == <<"a">>
N_ab == <<"a", "b">>
N_cb == <<"c", "b">>
N_a_b_c9 == <<"a", "-", "b", "_", "c", "9">>
N_foo_bar == <<"f", "o", "o", "-", "b", "a", "r">>

\* base names of the *.json files a directory may hold
FileNames == {N_ab, N_cb}
\* names handed to read, save and remove
OpNames == {N_empty, N_blank, N_a, N_ab, N_cb}

\* re.search("^[a-z][a-z0-9-_]*[a-z,0-9]$", name) on a string without a line feed
RegexFullMatch(s) ==
    /\ Len(s) >= 2
    /\ s[1] \in Lower
    /\ s[Len(s)] \in Lower \cup Digits \cup {","}
    /\ \A i \in 2..(Len(s) - 1) : s[i] \in Lower \cup Digits \cup {"-", "_"}

\* the name check of save: '$' also matches just before a final line feed
NameMatches(name) ==
    \/ RegexFullMatch(name)
    \/ /\ Len(name) >= 1
       /\ name[Len(name)] = "\n"
       /\ RegexFullMatch(SubSeq(name, 1, Len(name) - 1))

-----------------------------------------------------------------------------
(* Exceptions and results *)

Exc(type, what) == [type |-> type, what |-> what]
NoExc == Exc("none", "")

Payloads == 1..NumPayloads
DisplayNames == {"d1"}
\* schema names that occur in documents and in the cache
SchemaNames == {"kfp", "s2"}
\* the value of a JSON object that has no "schema_name" key
NoKey == "<no key>"

\* a path: the search-path directory and the base name of the file
Path(d, n) == [dir |-> d, name |-> n]
NoPath == Path("", <<>>)

-----------------------------------------------------------------------------
(* class Metadata *)

\* Metadata.__init__: schema_name falls back to the default when it is
\* missing, None or empty
Metadata(name, display_name, schema_name, resource, metadata, reason) ==
    [name |-> name,
     resource |-> resource,
     display_name |-> display_name,
     schema_name |-> IF schema_name \in {"", NoKey} THEN DEFAULT_SCHEMA_NAME ELSE schema_name,
     metadata |-> metadata,
     reason |-> reason]

NoMetadata == [name |-> <<>>, resource |-> NoPath, display_name |-> "",
               schema_name |-> "", metadata |-> 0, reason |-> ""]

\* the length of the text json.dumps gives for an object: it grows with the
\* schema name and with the payload (payload p stands for a dictionary of p
\* entries); the display names all have one length
SchemaNameLen(schema_name) ==
    CASE schema_name = "kfp" -> 3 [] schema_name = "s2" -> 2 [] OTHER -> 0
JsonLen(display_name, metadata, schema_name) == SchemaNameLen(schema_name) + metadata

\* the content of a file: the JSON object it holds ("present" tells a file
\* from its absence), whether its text parses as JSON, and the length of
\* the text
FileOf(display_name, metadata, schema_name) ==
    [present |-> TRUE, parses |-> TRUE, size |-> JsonLen(display_name, metadata, schema_name),
     display_name |-> display_name, metadata |-> metadata, schema_name |-> schema_name]

\* to_json(trim=True): the persisted JSON object holds exactly display_name,
\* metadata and schema_name
to_json(m) == FileOf(m.display_name, m.metadata, m.schema_name)

NoFile == [present |-> FALSE, parses |-> FALSE, size |-> 0,
           display_name |-> "", metadata |-> 0, schema_name |-> ""]

\* a file that io.open(resource, 'w') has created or truncated and that
\* nothing was written to
TruncatedFile == [NoFile EXCEPT !.present = TRUE]

\* the text written at offset 0 of a file: a longer text that the file held
\* keeps its tail, and the result does not parse
write_at_0(old, json) ==
    IF old.size <= json.size THEN json
    ELSE [json EXCEPT !.parses = FALSE, !.size = old.size]

-----------------------------------------------------------------------------
(* The file system: the directories metadata/<namespace> of the search path *)

\* jupyter_path(os.path.join('metadata', namespace)): the data directory,
\* into which save writes, then one additional root
WritableDir == "W"
SearchPath == <<WritableDir, "R">>
Dirs == {SearchPath[i] : i \in 1..Len(SearchPath)}

AbsentDir == [isdir |-> FALSE, files |-> [n \in FileNames |-> NoFile]]
EmptyDir == [isdir |-> TRUE, files |-> [n \in FileNames |-> NoFile]]

FileAt(f, p) ==
    IF p.dir \in Dirs /\ p.name \in FileNames /\ f[p.dir].isdir
    THEN f[p.dir].files[p.name] ELSE NoFile

\* os.path.exists(resource)
path_exists(f, p) == FileAt(f, p).present

\* nothing is removed
os_remove_Nothing(f, p) == f

\* os.remove(resource) of an existing file
os_remove(f, p) == [f EXCEPT ![p.dir].files[p.name] = NoFile]

\* os.makedirs(self.metadata_dir, mode=0o700, exist_ok=True)
os_makedirs(f, d) == IF f[d].isdir THEN f ELSE [f EXCEPT ![d] = EmptyDir]

\* shutil.rmtree(self.metadata_dir)
shutil_rmtree(f, d) == [f EXCEPT ![d] = AbsentDir]

\* io.open(resource, 'w') in an existing directory: the file is there and
\* empty
open_w(f, p) == [f EXCEPT ![p.dir].files[p.name] = TruncatedFile]

\* f.write(...) and the close of a file opened for writing
f_write(f, p, json) == [f EXCEPT ![p.dir].files[p.name] = write_at_0(@, json)]

\* io.open(resource, 'w') and f.write(...) into an existing directory
write_file(f, p, json) == f_write(open_w(f, p), p, json)

-----------------------------------------------------------------------------
(* class SchemaManager *)

\* a JSON schema is modelled by the set of payloads it accepts; a cache entry
\* may also hold None
Schema(acc) == [null |-> FALSE, accepts |-> acc]
NoneSchema == [null |-> TRUE, accepts |-> {}]
KfpSchema == Schema({1})
AnySchema == Schema(Payloads)

\* the *.json files of the package's schemas directory
SchemaDir ==
    { [file |-> "kfp", namespace |-> NAMESPACE_RUNTIMES, name |-> "kfp",
       schema |-> KfpSchema],
      [file |-> "metadata-test", namespace |-> METADATA_TEST_NAMESPACE, name |-> NoKey,
       schema |-> KfpSchema],
      [file |-> "draft", namespace |-> NoKey, name |-> "draft",
       schema |-> AnySchema] }

load_namespace_schemas(metadata_testing_enabled) ==
    LET kept == {sf \in SchemaDir :
                    /\ sf.namespace # NoKey
                    /\ ~(sf.namespace = METADATA_TEST_NAMESPACE /\ ~metadata_testing_enabled)}
        nameOf(sf) == IF sf.name = NoKey THEN sf.file ELSE sf.name
    IN  [ns \in {sf.namespace : sf \in kept} |->
            [n \in {nameOf(sf) : sf \in {g \in kept : g.namespace = ns}} |->
                (CHOOSE sf \in kept : sf.namespace = ns /\ nameOf(sf) = n).schema]]

is_valid_namespace(schemas, namespace) == namespace \in DOMAIN schemas

\* a name the namespace lacks gives None instead of an error
get_schema_None(schemas, namespace, schema_name) ==
    IF ~is_valid_namespace(schemas, namespace)
    THEN [exc |-> Exc("ValueError", "namespace"), val |-> NoneSchema]
    ELSE IF schema_name \notin DOMAIN schemas[namespace]
    THEN [exc |-> NoExc, val |-> NoneSchema]
    ELSE [exc |-> NoExc, val |-> schemas[namespace][schema_name]]

get_schema(schemas, namespace, schema_name) ==
    IF ~is_valid_namespace(schemas, namespace)
    THEN [exc |-> Exc("ValueError", "namespace"), val |-> NoneSchema]
    ELSE IF schema_name \notin DOMAIN schemas[namespace]
    THEN [exc |-> Exc("KeyError", "schema"), val |-> NoneSchema]
    ELSE [exc |-> NoExc, val |-> schemas[namespace][schema_name]]

add_schema(schemas, namespace, schema_name, schema) ==
    IF ~is_valid_namespace(schemas, namespace)
    THEN [exc |-> Exc("ValueError", "namespace"), cache |-> schemas]
    ELSE [exc |-> NoExc,
          cache |-> [schemas EXCEPT ![namespace] =
                        [n \in (DOMAIN @) \cup {schema_name} |->
                            IF n = schema_name THEN schema ELSE @[n]]]]

remove_schema(schemas, namespace, schema_name) ==
    IF ~is_valid_namespace(schemas, namespace)
    THEN [exc |-> Exc("ValueError", "namespace"), cache |-> schemas]
    ELSE IF schema_name \notin DOMAIN schemas[namespace]
    THEN [exc |-> Exc("KeyError", "pop"), cache |-> schemas]
    ELSE [exc |-> NoExc,
          cache |-> [schemas EXCEPT ![namespace] =
                        [n \in (DOMAIN @) \ {schema_name} |-> @[n]]]]

-----------------------------------------------------------------------------
(* class MetadataStore / FileMetadataStore: helpers *)

\* self.namespace of the store instance under study
StoreNamespace == NAMESPACE_RUNTIMES

\* self.metadata_dir/<name>.json
Resource(name) == Path(WritableDir, name)

\* _get_resource(metadata): always a path below the writable directory
_get_resource(metadata) == Resource(metadata.name)

\* every namespace is taken to exist
namespace_exists_Always(f) == TRUE

namespace_exists(f) == \E i \in 1..Len(SearchPath) : f[SearchPath[i]].isdir

\* nothing is checked
validate_Nothing(schema, json) == NoExc

\* MetadataStore.validate: jsonschema.validate of the whole JSON object
validate(schema, json) ==
    IF json.metadata \in schema.accepts THEN NoExc
    ELSE Exc("ValidationError", "validation")

SchemaFileExists(schema_name) == \E sf \in SchemaDir : sf.file = schema_name
SchemaFile(schema_name) == CHOOSE sf \in SchemaDir : sf.file = schema_name

\* _get_schema: the cached schema; a cached None is replaced by the schema
\* file named after the schema, which is then added to the cache
_get_schema(schemas, schema_name) ==
    LET r == get_schema(schemas, StoreNamespace, schema_name)
    IN  IF r.exc # NoExc
        THEN [exc |-> r.exc, val |-> NoneSchema, cache |-> schemas]
        ELSE IF r.val.null
        THEN IF ~SchemaFileExists(schema_name)
             THEN [exc |-> Exc("ValidationError", "schema file"), val |-> NoneSchema,
                   cache |-> schemas]
             ELSE [exc |-> NoExc, val |-> SchemaFile(schema_name).schema,
                   cache |-> add_schema(schemas, StoreNamespace, schema_name,
                                        SchemaFile(schema_name).schema).cache]
        ELSE [exc |-> NoExc, val |-> r.val, cache |-> schemas]

\* Bind(e, LAMBDA x : body) is LET x == e IN body, with e written once
Bind(x, F(_)) == F(x)

\* _load_from_resource(resource, validate_metadata, include_invalid)
_load_from_resource(f, schemas, resource, validate_metadata, include_invalid) ==
    LET metadata_json == FileAt(f, resource)
        name == resource.name
        schema_name == metadata_json.schema_name
        checked == validate_metadata /\ schema_name \notin {NoKey, ""}
    IN  IF ~metadata_json.present
        THEN [exc |-> Exc("FileNotFoundError", "open"), val |-> NoMetadata, cache |-> schemas]
        ELSE IF ~metadata_json.parses
        THEN [exc |-> Exc("JSONDecodeError", "json.load"), val |-> NoMetadata,
              cache |-> schemas]
        ELSE
        Bind(IF checked THEN _get_schema(schemas, schema_name)
             ELSE [exc |-> NoExc, val |-> NoneSchema, cache |-> schemas], LAMBDA sch :
        Bind(IF checked /\ sch.exc = NoExc THEN validate(sch.val, metadata_json) ELSE NoExc,
             LAMBDA ve :
            IF sch.exc # NoExc
            THEN [exc |-> sch.exc, val |-> NoMetadata, cache |-> sch.cache]
            ELSE IF ve # NoExc /\ ~include_invalid
            THEN [exc |-> ve, val |-> NoMetadata, cache |-> sch.cache]
            ELSE IF metadata_json.schema_name = NoKey
            THEN [exc |-> Exc("KeyError", "schema_name"), val |-> NoMetadata,
                  cache |-> sch.cache]
            ELSE [exc |-> NoExc,
                  val |-> Metadata(name, metadata_json.display_name,
                                   metadata_json.schema_name, resource,
                                   metadata_json.metadata,
                                   IF ve # NoExc THEN ve.type ELSE ""),
                  cache |-> sch.cache]))

\* the *.json files of the search path, a directory at a time
JsonPaths(f) == {p \in [dir : Dirs, name : FileNames] : FileAt(f, p).present}

\* the loop of _load_metadata_resources without a name: every file is loaded
\* in turn, against the cache the earlier loads left; any exception drops
\* the file
RECURSIVE LoadAll(_, _, _, _, _)
LoadAll(f, schemas, paths, validate_metadata, include_invalid) ==
    IF paths = {} THEN [list |-> {}, cache |-> schemas]
    ELSE
    Bind(CHOOSE p \in paths : TRUE, LAMBDA path :
    Bind(_load_from_resource(f, schemas, path, validate_metadata, include_invalid),
         LAMBDA r :
    Bind(LoadAll(f, r.cache, paths \ {path}, validate_metadata, include_invalid),
         LAMBDA rest :
        [list |-> (IF r.exc = NoExc THEN {r.val} ELSE {}) \cup rest.list,
         cache |-> rest.cache])))

\* the last directory of the search path that holds <name>.json
FirstMatch_Last(f, name) ==
    LET hits == {i \in 1..Len(SearchPath) : path_exists(f, Path(SearchPath[i], name))}
    IN  IF hits = {} THEN NoPath
        ELSE Path(SearchPath[CHOOSE i \in hits : \A j \in hits : i >= j], name)

\* the first directory of the search path that holds <name>.json
FirstMatch(f, name) ==
    LET hits == {i \in 1..Len(SearchPath) : path_exists(f, Path(SearchPath[i], name))}
    IN  IF hits = {} THEN NoPath
        ELSE Path(SearchPath[CHOOSE i \in hits : \A j \in hits : i <= j], name)

\* _load_metadata_resources(name, validate_metadata, include_invalid)
_load_metadata_resources(f, schemas, name, validate_metadata, include_invalid) ==
    IF ~namespace_exists(f)
    THEN [exc |-> Exc("KeyError", "namespace"), val |-> NoMetadata, list |-> {},
          islist |-> FALSE, cache |-> schemas]
    ELSE IF name # <<>>
    THEN IF FirstMatch(f, name) = NoPath
         THEN [exc |-> Exc("KeyError", "metadata"), val |-> NoMetadata, list |-> {},
               islist |-> FALSE, cache |-> schemas]
         ELSE Bind(_load_from_resource(f, schemas, FirstMatch(f, name),
                                       validate_metadata, FALSE), LAMBDA r :
                  [exc |-> r.exc, val |-> r.val, list |-> {}, islist |-> FALSE,
                   cache |-> r.cache])
    ELSE Bind(LoadAll(f, schemas, JsonPaths(f), validate_metadata, include_invalid),
              LAMBDA all :
             [exc |-> NoExc, val |-> NoMetadata, list |-> all.list, islist |-> TRUE,
              cache |-> all.cache])

-----------------------------------------------------------------------------
(* class FileMetadataStore: the operations *)

\* what a call did: the exception it raised (or NoExc), what it returned, the
\* file system and the schema cache it left, and whether it got as far as
\* the file system (touched), created the namespace directory (created) and
\* reached the write of the file (wrote)
Outcome(exc, path, doc, list, f, cache, touched, created, wrote) ==
    [exc |-> exc, path |-> path, doc |-> doc, list |-> list, fs |-> f, cache |-> cache,
     touched |-> touched, created |-> created, wrote |-> wrote]

Raise(exc, f, cache, touched) ==
    Outcome(exc, NoPath, NoMetadata, {}, f, cache, touched, FALSE, FALSE)

read(f, schemas, name) ==
    IF name = <<>>
    THEN Raise(Exc("ValueError", "name"), f, schemas, FALSE)
    ELSE Bind(_load_metadata_resources(f, schemas, name, TRUE, FALSE), LAMBDA r :
             Outcome(r.exc, NoPath, r.val, {}, f, r.cache, TRUE, FALSE, FALSE))

\* get_all_metadata_summary(include_invalid); get_all() is the same call with
\* include_invalid left False
get_all_metadata_summary(f, schemas, include_invalid) ==
    Bind(_load_metadata_resources(f, schemas, <<>>, TRUE, include_invalid), LAMBDA r :
        Outcome(r.exc, NoPath, NoMetadata, r.list, f, r.cache, TRUE, FALSE, FALSE))

\* the documents handed to save: instances of Metadata, None, or an object
\* of another class
MetadataObjects ==
    {Metadata(<<>>, d, s, NoPath, p, "") :
        d \in DisplayNames, s \in SchemaNames \cup {""}, p \in Payloads}
SaveArgs ==
    {[kind |-> "Metadata", obj |-> m] : m \in MetadataObjects}
    \cup {[kind |-> "None", obj |-> NoMetadata], [kind |-> "dict", obj |-> NoMetadata]}

\* lines 221-227: the checks save makes on its name
save_name_check(name) ==
    IF name = <<>> THEN Exc("ValueError", "name")
    ELSE IF ~NameMatches(name) THEN Exc("ValueError", "regex")
    ELSE NoExc

\* replace is not looked at: an existing file is always removed
existing_resource_Overwrite(existed, replace) ==
    IF ~existed THEN "write" ELSE "remove, write"

\* lines 238-244: what save does about the file it finds at the target path
existing_resource(existed, replace) ==
    IF ~existed THEN "write"
    ELSE IF replace THEN "remove, write"
    ELSE "return None"

\* the faults of the write step: none, io.open raises (permission denied),
\* or f.write raises after the file was opened (disk full)
Faults == {"none", "open", "write"}

\* lines 252-259: the write step; the exception of a fault is swallowed
write_step(f, resource, json, fault, created_namespace_dir) ==
    IF f[WritableDir].isdir /\ fault = "none" THEN write_file(f, resource, json)
    ELSE Bind(IF f[WritableDir].isdir /\ fault = "write" THEN open_w(f, resource) ELSE f,
              LAMBDA g : IF created_namespace_dir THEN shutil_rmtree(g, WritableDir) ELSE g)

save(f, schemas, name, metadata, replace, fault) ==
    LET resource == Resource(name)
        existed == path_exists(f, resource)
    IN  IF save_name_check(name) # NoExc
        THEN Raise(save_name_check(name), f, schemas, FALSE)
        ELSE IF metadata.kind = "None"
        THEN Raise(Exc("ValueError", "metadata"), f, schemas, FALSE)
        ELSE IF metadata.kind # "Metadata"
        THEN Raise(Exc("TypeError", "metadata"), f, schemas, FALSE)
        ELSE IF existing_resource(existed, replace) = "return None"
        THEN Outcome(NoExc, NoPath, NoMetadata, {}, f, schemas, TRUE, FALSE, FALSE)
        ELSE
        \* lines 238-240
        Bind(IF existing_resource(existed, replace) = "remove, write"
             THEN os_remove(f, resource) ELSE f, LAMBDA f1 :
        \* lines 246-250
        Bind(~namespace_exists(f1), LAMBDA created_namespace_dir :
        Bind(IF created_namespace_dir THEN os_makedirs(f1, WritableDir) ELSE f1, LAMBDA f2 :
        \* lines 252-259: open fails when the directory of the file is missing
        Bind(write_step(f2, resource, to_json(metadata.obj), fault, created_namespace_dir),
             LAMBDA f3 :
        \* lines 262-273
        Bind(_load_from_resource(f3, schemas, resource, TRUE, FALSE), LAMBDA ld :
            IF ld.exc.type = "ValidationError"
            THEN Outcome(NoExc, NoPath, NoMetadata, {},
                         IF created_namespace_dir THEN shutil_rmtree(f3, WritableDir)
                         ELSE os_remove(f3, resource),
                         ld.cache, TRUE, created_namespace_dir, TRUE)
            ELSE IF ld.exc # NoExc
            THEN Outcome(ld.exc, NoPath, NoMetadata, {}, f3, ld.cache, TRUE,
                         created_namespace_dir, TRUE)
            ELSE Outcome(NoExc, resource, NoMetadata, {}, f3, ld.cache, TRUE,
                         created_namespace_dir, TRUE))))))

remove(f, schemas, name) ==
    Bind(_load_metadata_resources(f, schemas, name, FALSE, FALSE), LAMBDA r :
        IF r.exc.type = "KeyError"
        THEN Outcome(NoExc, NoPath, NoMetadata, {}, f, r.cache, TRUE, FALSE, FALSE)
        ELSE IF r.exc # NoExc
        THEN Raise(r.exc, f, r.cache, TRUE)
        ELSE IF r.islist
        THEN Raise(Exc("AttributeError", "name"), f, r.cache, TRUE)
        ELSE IF ~path_exists(f, _get_resource(r.val))
        THEN Raise(Exc("FileNotFoundError", "remove"), f, r.cache, TRUE)
        ELSE Outcome(NoExc, _get_resource(r.val), NoMetadata, {},
                     os_remove(f, _get_resource(r.val)), r.cache, TRUE, FALSE, FALSE))

\* clear_all: the schemas are loaded again, under the METADATA_TESTING
\* variable as the environment has it now
clear_all(metadata_testing) == load_namespace_schemas(metadata_testing)

-----------------------------------------------------------------------------
(* The state machine of the store and the schema cache *)

\* the last call and what it did; existed is set by a save that got to line
\* 238 and found its target file there
Call(op, name, metadata, flag, fault, out) ==
    [op |-> op, name |-> name, metadata |-> metadata, flag |-> flag, fault |-> fault,
     existed |-> FALSE,
     exc |-> out.exc, path |-> out.path, doc |-> out.doc, list |-> out.list,
     touched |-> out.touched, created |-> out.created, wrote |-> out.wrote]

NoArg == [kind |-> "None", obj |-> NoMetadata]
NoOutcome == Raise(NoExc, <<>>, <<>>, FALSE)
\* no call is under way: the caller has taken the outcome of the last one
NoCall == Call("none", <<>>, NoArg, FALSE, "none", NoOutcome)

\* a get_schema call that runs beside the other calls: where it is (pc, by
\* line number), its arguments, the dictionary of the namespace it has
\* fetched (the one the cache holds, or one the cache has let go of), and
\* its outcome
Getter(pc, namespace, schema_name, held, schemas, exc, val) ==
    [pc |-> pc, namespace |-> namespace, schema_name |-> schema_name,
     held |-> held, schemas |-> schemas, exc |-> exc, val |-> val]
NoGetter == Getter("idle", "", "", "none", <<>>, NoExc, NoneSchema)

\* the cache lets go of its dictionaries: a getter that has fetched one of
\* them keeps it as it is now
Detach(g, schemas) ==
    IF g.held = "cached" THEN [g EXCEPT !.held = "own", !.schemas = schemas[g.namespace]]
    ELSE g

\* no save runs beside the others
NoThreads == <<>>

\* documents that other tools may have put below the additional root
ForeignFiles ==
    { to_json(Metadata(<<>>, "d1", "kfp", NoPath, 1, "")),
      to_json(Metadata(<<>>, "d1", "kfp", NoPath, NumPayloads, "")),
      FileOf("d1", 1, NoKey) }

InitDirs ==
    {AbsentDir, EmptyDir}
    \cup {[EmptyDir EXCEPT !.files[N_ab] = json] : json \in ForeignFiles}

Init ==
    /\ fs \in {f \in [Dirs -> InitDirs] : f[WritableDir] \in {AbsentDir, EmptyDir}}
    /\ environ = FALSE
    /\ namespace_schemas = load_namespace_schemas(environ)
    /\ last = NoCall
    /\ getter = NoGetter
    /\ thr = NoThreads
    /\ nameIn = <<>>
    /\ nameOut = "unchecked"

Read(name) ==
    \E out \in {read(fs, namespace_schemas, name)} :
        /\ last = NoCall
        /\ fs' = out.fs
        /\ namespace_schemas' = out.cache
        /\ last' = Call("read", name, NoArg, FALSE, "none", out)
        /\ UNCHANGED <<environ, getter, thr, nameIn, nameOut>>

Save(name, metadata, replace, fault) ==
    \E out \in {save(fs, namespace_schemas, name, metadata, replace, fault)} :
        /\ last = NoCall
        /\ fs' = out.fs
        /\ namespace_schemas' = out.cache
        /\ last' = [Call("save", name, metadata, replace, fault, out) EXCEPT
                        !.existed = out.touched /\ path_exists(fs, Resource(name))]
        /\ UNCHANGED <<environ, getter, thr, nameIn, nameOut>>

Remove(name) ==
    \E out \in {remove(fs, namespace_schemas, name)} :
        /\ last = NoCall
        /\ fs' = out.fs
        /\ namespace_schemas' = out.cache
        /\ last' = Call("remove", name, NoArg, FALSE, "none", out)
        /\ UNCHANGED <<environ, getter, thr, nameIn, nameOut>>

GetAll(include_invalid) ==
    \E out \in {get_all_metadata_summary(fs, namespace_schemas, include_invalid)} :
        /\ last = NoCall
        /\ fs' = out.fs
        /\ namespace_schemas' = out.cache
        /\ last' = Call("get_all", <<>>, NoArg, include_invalid, "none", out)
        /\ UNCHANGED <<environ, getter, thr, nameIn, nameOut>>

AddSchema(namespace, schema_name, schema) ==
    \E r \in {add_schema(namespace_schemas, namespace, schema_name, schema)} :
        /\ last = NoCall
        /\ namespace_schemas' = r.cache
        /\ last' = Call("add_schema", <<>>, NoArg, FALSE, "none", Raise(r.exc, fs, r.cache, FALSE))
        /\ UNCHANGED <<fs, environ, getter, thr, nameIn, nameOut>>

RemoveSchema(namespace, schema_name) ==
    \E r \in {remove_schema(namespace_schemas, namespace, schema_name)} :
        /\ last = NoCall
        /\ namespace_schemas' = r.cache
        /\ last' = Call("remove_schema", <<>>, NoArg, FALSE, "none", Raise(r.exc, fs, r.cache, FALSE))
        /\ UNCHANGED <<fs, environ, getter, thr, nameIn, nameOut>>

\* clear_all binds a new dictionary to self.namespace_schemas: a get_schema
\* under way keeps the dictionary it has fetched
ClearAll ==
    /\ last = NoCall
    /\ namespace_schemas' = clear_all(environ)
    /\ getter' = Detach(getter, namespace_schemas)
    /\ last' = Call("clear_all", <<>>, NoArg, FALSE, "none",
                    Raise(NoExc, fs, clear_all(environ), FALSE))
    /\ UNCHANGED <<fs, environ, thr, nameIn, nameOut>>

\* MetadataManager hands the outcome of the store's call to its caller
Return ==
    /\ last # NoCall
    /\ last' = NoCall
    /\ UNCHANGED <<fs, namespace_schemas, environ, getter, thr, nameIn, nameOut>>

\* the arguments the calls are made with.  A call that fails on its name
\* before it looks at its other arguments is made with one document only.
ValidNames == {n \in OpNames : NameMatches(n)}
AMetadata == [kind |-> "Metadata", obj |-> Metadata(<<>>, "d1", "", NoPath, 1, "")]
\* The write step is made to fail for one name and one document.
SaveCalls ==
    {<<n, m, r, "none">> : n \in ValidNames, m \in {a \in SaveArgs : a.kind = "Metadata"},
                           r \in BOOLEAN}
    \cup {<<n, AMetadata, TRUE, "none">> : n \in OpNames \ ValidNames}
    \cup {<<N_ab, m, TRUE, "none">> : m \in {a \in SaveArgs : a.kind # "Metadata"}}
    \cup {<<N_cb, AMetadata, TRUE, fault>> : fault \in Faults \ {"none"}}
LookupNames == OpNames \ {N_a}
AddSchemaCalls ==
    {<<NAMESPACE_RUNTIMES, n, sc>> : n \in SchemaNames, sc \in {AnySchema, NoneSchema}}
    \cup {<<"bogus-namespace", "kfp", AnySchema>>}
RemoveSchemaCalls ==
    {<<NAMESPACE_RUNTIMES, n>> : n \in SchemaNames} \cup {<<"bogus-namespace", "kfp">>}

Next ==
    \/ \E name \in LookupNames : Read(name)
    \/ \E c \in SaveCalls : Save(c[1], c[2], c[3], c[4])
    \/ \E name \in LookupNames : Remove(name)
    \/ \E include_invalid \in BOOLEAN : GetAll(include_invalid)
    \/ \E c \in AddSchemaCalls : AddSchema(c[1], c[2], c[3])
    \/ \E c \in RemoveSchemaCalls : RemoveSchema(c[1], c[2])
    \/ ClearAll
    \/ Return

Spec == Init /\ [][Next]_vars

-----------------------------------------------------------------------------
(* The schema cache on its own: the calls of SchemaManager, one at a time,   *)
(* in a process whose METADATA_TESTING variable is set or not and changes    *)

\* a call of get_schema and its outcome
SchemaCall(namespace, schema_name, r) ==
    [op |-> "get_schema", namespace |-> namespace, schema_name |-> schema_name,
     exc |-> r.exc, val |-> r.val]

InitCache ==
    /\ fs = [d \in Dirs |-> AbsentDir]
    /\ environ \in BOOLEAN
    /\ namespace_schemas = load_namespace_schemas(environ)
    /\ last = NoCall
    /\ getter = NoGetter
    /\ thr = NoThreads
    /\ nameIn = <<>>
    /\ nameOut = "unchecked"

GetSchema(namespace, schema_name) ==
    \E r \in {get_schema(namespace_schemas, namespace, schema_name)} :
        /\ last = NoCall
        /\ last' = SchemaCall(namespace, schema_name, r)
        /\ UNCHANGED <<fs, namespace_schemas, environ, getter, thr, nameIn, nameOut>>

\* the process sets or unsets METADATA_TESTING in its environment
SetEnv(metadata_testing) ==
    /\ last = NoCall
    /\ environ # metadata_testing
    /\ environ' = metadata_testing
    /\ UNCHANGED <<fs, namespace_schemas, last, getter, thr, nameIn, nameOut>>

CacheNamespaces == {NAMESPACE_RUNTIMES, METADATA_TEST_NAMESPACE, "bogus-namespace"}
CacheSchemaNames == SchemaNames \cup {"nonexistent"}
GetSchemaCalls == CacheNamespaces \X CacheSchemaNames
CacheAddSchemaCalls ==
    AddSchemaCalls \cup {<<METADATA_TEST_NAMESPACE, "s2", AnySchema>>}
CacheRemoveSchemaCalls ==
    RemoveSchemaCalls \cup {<<METADATA_TEST_NAMESPACE, "s2">>}

NextCache ==
    \/ \E c \in GetSchemaCalls : GetSchema(c[1], c[2])
    \/ \E c \in CacheAddSchemaCalls : AddSchema(c[1], c[2], c[3])
    \/ \E c \in CacheRemoveSchemaCalls : RemoveSchema(c[1], c[2])
    \/ ClearAll
    \/ \E v \in BOOLEAN : SetEnv(v)
    \/ Return

SpecCache == InitCache /\ [][NextCache]_vars

-----------------------------------------------------------------------------
(* A get_schema call, statement by statement, beside the calls of another    *)
(* thread that adds and removes schemas and reloads the cache.  No lock is   *)
(* taken anywhere in the class.  add_schema, remove_schema and clear_all     *)
(* are taken as single steps.                                                *)

\* the dictionary a getter has in its local variable schemas
HeldSchemas(g, schemas) == IF g.held = "cached" THEN schemas[g.namespace] ELSE g.schemas

GetStart(namespace, schema_name) ==
    /\ getter.pc = "idle"
    /\ getter' = Getter("404", namespace, schema_name, "none", <<>>, NoExc, NoneSchema)
    /\ UNCHANGED <<fs, namespace_schemas, environ, last, thr, nameIn, nameOut>>

\* line 404: if not self.is_valid_namespace(namespace): raise ValueError
Get404 ==
    /\ getter.pc = "404"
    /\ getter' = IF is_valid_namespace(namespace_schemas, getter.namespace)
                  THEN [getter EXCEPT !.pc = "407"]
                  ELSE [getter EXCEPT !.pc = "done", !.exc = Exc("ValueError", "namespace")]
    /\ UNCHANGED <<fs, namespace_schemas, environ, last, thr, nameIn, nameOut>>

\* line 407: schemas = self.namespace_schemas.get(namespace), which is None
\* when the namespace is gone
Get407 ==
    /\ getter.pc = "407"
    /\ getter' = [getter EXCEPT !.pc = "408",
                                 !.held = IF getter.namespace \in DOMAIN namespace_schemas
                                          THEN "cached" ELSE "None"]
    /\ UNCHANGED <<fs, namespace_schemas, environ, last, thr, nameIn, nameOut>>

\* line 408: if schema_name not in schemas.keys(): raise KeyError
Get408 ==
    /\ getter.pc = "408"
    /\ getter' = IF getter.held = "None"
                  THEN [getter EXCEPT !.pc = "done", !.exc = Exc("AttributeError", "keys")]
                  ELSE IF getter.schema_name \notin DOMAIN HeldSchemas(getter, namespace_schemas)
                  THEN [getter EXCEPT !.pc = "done", !.exc = Exc("KeyError", "schema")]
                  ELSE [getter EXCEPT !.pc = "410"]
    /\ UNCHANGED <<fs, namespace_schemas, environ, last, thr, nameIn, nameOut>>

\* lines 410-412: schema_json = schemas.get(schema_name), which is None when
\* the name is gone; return schema_json
Get410 ==
    /\ getter.pc = "410"
    /\ getter' = [getter EXCEPT
                    !.pc = "done",
                    !.val = IF getter.schema_name \in DOMAIN HeldSchemas(getter, namespace_schemas)
                            THEN HeldSchemas(getter, namespace_schemas)[getter.schema_name]
                            ELSE NoneSchema]
    /\ UNCHANGED <<fs, namespace_schemas, environ, last, thr, nameIn, nameOut>>

\* the caller has taken the outcome
GetReturn ==
    /\ getter.pc = "done"
    /\ getter' = NoGetter
    /\ UNCHANGED <<fs, namespace_schemas, environ, last, thr, nameIn, nameOut>>

\* the other thread never caches None
ConcAddSchemaCalls == {c \in CacheAddSchemaCalls : ~c[3].null}

NextGetter ==
    \/ \E c \in GetSchemaCalls : GetStart(c[1], c[2])
    \/ Get404
    \/ Get407
    \/ Get408
    \/ Get410
    \/ GetReturn
    \/ \E c \in ConcAddSchemaCalls : AddSchema(c[1], c[2], c[3])
    \/ \E c \in CacheRemoveSchemaCalls : RemoveSchema(c[1], c[2])
    \/ ClearAll
    \/ \E v \in BOOLEAN : SetEnv(v)
    \/ Return

SpecGetter == InitCache /\ [][NextGetter]_vars

-----------------------------------------------------------------------------
(* Two save calls on two threads (or in two processes), statement by         *)
(* statement, from line 235 on: the names are valid and the documents are    *)
(* instances of Metadata.  No lock is taken and no file is locked.           *)

\* a save call under way: where it is (pc, by line number), its arguments,
\* its local created_namespace_dir, the file it has open for writing (fd:
\* "none", "open", or "unlinked" once the file was removed under it), and its
\* outcome
Thread(pc, name, metadata, replace, created, fd, exc, path) ==
    [pc |-> pc, name |-> name, metadata |-> metadata, replace |-> replace,
     created |-> created, fd |-> fd, exc |-> exc, path |-> path]

Threads == {1, 2}

\* the documents of the two calls: two that are valid for the schema "s2",
\* of different lengths, and one that is invalid for "kfp"
ConcDocs ==
    { Metadata(<<>>, "d1", "s2", NoPath, 1, ""),
      Metadata(<<>>, "d1", "s2", NoPath, NumPayloads, ""),
      Metadata(<<>>, "d1", "kfp", NoPath, NumPayloads, "") }

InitSaves ==
    /\ fs \in {f \in [Dirs -> {AbsentDir, EmptyDir}
                                \cup {[EmptyDir EXCEPT !.files[N_ab] = to_json(m)] :
                                         m \in ConcDocs}] :
                   f["R"] = AbsentDir}
    /\ environ = FALSE
    /\ namespace_schemas =
          add_schema(load_namespace_schemas(environ), StoreNamespace, "s2", AnySchema).cache
    /\ last = NoCall
    /\ getter = NoGetter
    /\ thr \in {t \in [Threads -> {Thread("238", n, m, TRUE, FALSE, "none", NoExc, NoPath) :
                                       n \in FileNames, m \in ConcDocs}] :
                    t[1].name = N_ab}
    /\ nameIn = <<>>
    /\ nameOut = "unchecked"

\* the file at p is removed: a thread that has it open keeps writing to a
\* file that no path leads to
Unlink(th, t, names) ==
    [u \in Threads |->
        IF u # t /\ th[u].fd = "open" /\ th[u].name \in names
        THEN [th[u] EXCEPT !.fd = "unlinked"] ELSE th[u]]

Raised(th, t, exc) == [th EXCEPT ![t].pc = "done", ![t].exc = exc]
Returned(th, t, path) == [th EXCEPT ![t].pc = "done", ![t].path = path]

\* lines 238-244: if os.path.exists(resource)
Save238(t) ==
    /\ thr[t].pc = "238"
    /\ thr' = IF ~path_exists(fs, Resource(thr[t].name)) THEN [thr EXCEPT ![t].pc = "247"]
              ELSE IF existing_resource(TRUE, thr[t].replace) = "remove, write"
              THEN [thr EXCEPT ![t].pc = "240"]
              ELSE Returned(thr, t, NoPath)
    /\ UNCHANGED <<fs, namespace_schemas, environ, last, getter, nameIn, nameOut>>

\* line 240: os.remove(resource), which raises when the file is gone
Save240(t) ==
    /\ thr[t].pc = "240"
    /\ IF path_exists(fs, Resource(thr[t].name))
       THEN /\ fs' = os_remove(fs, Resource(thr[t].name))
            /\ thr' = Unlink([thr EXCEPT ![t].pc = "247"], t, {thr[t].name})
       ELSE /\ fs' = fs
            /\ thr' = Raised(thr, t, Exc("FileNotFoundError", "remove"))
    /\ UNCHANGED <<namespace_schemas, environ, last, getter, nameIn, nameOut>>

\* lines 246-247: if not self.namespace_exists()
Save247(t) ==
    /\ thr[t].pc = "247"
    /\ thr' = [thr EXCEPT ![t].pc = IF namespace_exists(fs) THEN "253" ELSE "249"]
    /\ UNCHANGED <<fs, namespace_schemas, environ, last, getter, nameIn, nameOut>>

\* lines 249-250: os.makedirs(..., exist_ok=True); created_namespace_dir = True
Save249(t) ==
    /\ thr[t].pc = "249"
    /\ fs' = os_makedirs(fs, WritableDir)
    /\ thr' = [thr EXCEPT ![t].pc = "253", ![t].created = TRUE]
    /\ UNCHANGED <<namespace_schemas, environ, last, getter, nameIn, nameOut>>

\* line 253: io.open(resource, 'w'); when the directory is gone the open
\* fails and lines 255-257 run: shutil.rmtree of the missing directory raises
\* when this call created it, and otherwise the failure is swallowed
Save253(t) ==
    /\ thr[t].pc = "253"
    /\ IF fs[WritableDir].isdir
       THEN /\ fs' = open_w(fs, Resource(thr[t].name))
            /\ thr' = [thr EXCEPT ![t].pc = "254", ![t].fd = "open"]
       ELSE /\ fs' = fs
            /\ thr' = IF thr[t].created
                      THEN Raised(thr, t, Exc("FileNotFoundError", "rmtree"))
                      ELSE [thr EXCEPT ![t].pc = "263"]
    /\ UNCHANGED <<namespace_schemas, environ, last, getter, nameIn, nameOut>>

\* line 254 and the end of the with block: the text is written at the start
\* of the file and the file is closed
Save254(t) ==
    /\ thr[t].pc = "254"
    /\ fs' = IF thr[t].fd = "open"
             THEN f_write(fs, Resource(thr[t].name), to_json(thr[t].metadata))
             ELSE fs
    /\ thr' = [thr EXCEPT ![t].pc = "263", ![t].fd = "none"]
    /\ UNCHANGED <<namespace_schemas, environ, last, getter, nameIn, nameOut>>

\* lines 262-264 and 273: the file is loaded and validated
Save263(t) ==
    \E ld \in {_load_from_resource(fs, namespace_schemas, Resource(thr[t].name), TRUE, FALSE)} :
        /\ thr[t].pc = "263"
        /\ namespace_schemas' = ld.cache
        /\ thr' = IF ld.exc.type = "ValidationError" THEN [thr EXCEPT ![t].pc = "267"]
                  ELSE IF ld.exc # NoExc THEN Raised(thr, t, ld.exc)
                  ELSE Returned(thr, t, Resource(thr[t].name))
        /\ UNCHANGED <<fs, environ, last, getter, nameIn, nameOut>>

\* lines 265-273: the rollback; shutil.rmtree and os.remove raise when what
\* they are to remove is gone
Save267(t) ==
    /\ thr[t].pc = "267"
    /\ IF thr[t].created
       THEN IF fs[WritableDir].isdir
            THEN /\ fs' = shutil_rmtree(fs, WritableDir)
                 /\ thr' = Unlink(Returned(thr, t, NoPath), t, FileNames)
            ELSE /\ fs' = fs
                 /\ thr' = Raised(thr, t, Exc("FileNotFoundError", "rmtree"))
       ELSE IF path_exists(fs, Resource(thr[t].name))
            THEN /\ fs' = os_remove(fs, Resource(thr[t].name))
                 /\ thr' = Unlink(Returned(thr, t, NoPath), t, {thr[t].name})
            ELSE /\ fs' = fs
                 /\ thr' = Raised(thr, t, Exc("FileNotFoundError", "remove"))
    /\ UNCHANGED <<namespace_schemas, environ, last, getter, nameIn, nameOut>>

NextSaves ==
    \E t \in Threads :
        \/ Save238(t)
        \/ Save240(t)
        \/ Save247(t)
        \/ Save249(t)
        \/ Save253(t)
        \/ Save254(t)
        \/ Save263(t)
        \/ Save267(t)

SpecSaves == InitSaves /\ [][NextSaves]_vars

-----------------------------------------------------------------------------
(* The name check of save on its own, over every string of the alphabet up   *)
(* to MaxLen characters and the names the documentation gives as examples    *)

NamesChecked == StringsUpTo(MaxLen) \cup {N_a_b_c9, N_foo_bar}

InitName ==
    /\ fs = [d \in Dirs |-> AbsentDir]
    /\ environ = FALSE
    /\ namespace_schemas = load_namespace_schemas(environ)
    /\ last = NoCall
    /\ getter = NoGetter
    /\ thr = NoThreads
    /\ nameIn \in NamesChecked
    /\ nameOut = "unchecked"

CheckName ==
    /\ nameOut = "unchecked"
    /\ nameOut' = IF save_name_check(nameIn) = NoExc THEN "accepted" ELSE "rejected"
    /\ UNCHANGED <<fs, namespace_schemas, environ, last, getter, thr, nameIn>>

NextName == CheckName

SpecName == InitName /\ [][NextName]_vars

-----------------------------------------------------------------------------
(* What the documentation says, in terms of the state *)

\* the identifier rule of the documentation: lowercase alphanumeric, '-' and
\* '_' only inside, first and last character alphanumeric
IdentifierRule(s) ==
    /\ Len(s) >= 1
    /\ \A i \in 1..Len(s) : s[i] \in Lower \cup Digits \cup {"-", "_"}
    /\ s[1] \in Lower \cup Digits
    /\ s[Len(s)] \in Lower \cup Digits

\* the schema a schema name stands for in the store's namespace, if any: the
\* cached one, or the schema file of that name where the cache holds None
HasSchema(schemas, schema_name) ==
    /\ schema_name \in DOMAIN schemas[StoreNamespace]
    /\ schemas[StoreNamespace][schema_name].null => \E sf \in SchemaDir : sf.file = schema_name
TheSchema(schemas, schema_name) ==
    IF schemas[StoreNamespace][schema_name].null
    THEN (CHOOSE sf \in SchemaDir : sf.file = schema_name).schema
    ELSE schemas[StoreNamespace][schema_name]

\* a document (a JSON object or a Metadata instance) passes, or fails,
\* validation against its schema
PassesValidation(schemas, d) ==
    /\ d.schema_name \notin {NoKey, ""}
    /\ HasSchema(schemas, d.schema_name)
    /\ d.metadata \in TheSchema(schemas, d.schema_name).accepts
FailsValidation(schemas, d) ==
    /\ d.schema_name \notin {NoKey, ""}
    /\ HasSchema(schemas, d.schema_name)
    /\ d.metadata \notin TheSchema(schemas, d.schema_name).accepts

NotFound(exc) == exc \in {Exc("KeyError", "metadata"), Exc("KeyError", "namespace")}
IsSaveOfMetadata(c) == c.op = "save" /\ c.metadata.kind = "Metadata" /\ c.fault = "none"

-----------------------------------------------------------------------------
(* C1 *)

\* C1: round trip.  After save(name, document) with a name that follows the
\* identifier rule and a document that passes validation against its schema,
\* the call has returned the path of the file and read(name) returns a
\* document with the saved display_name, schema_name and metadata, named name.
C1_RoundTrip ==
    ( /\ IsSaveOfMetadata(last)
      /\ last.flag
      /\ IdentifierRule(last.name)
      /\ PassesValidation(namespace_schemas, last.metadata.obj) )
    => /\ last.exc = NoExc
       /\ last.path = Resource(last.name)
       /\ LET r == read(fs, namespace_schemas, last.name)
          IN  /\ r.exc = NoExc
              /\ r.doc.name = last.name
              /\ r.doc.display_name = last.metadata.obj.display_name
              /\ r.doc.schema_name = last.metadata.obj.schema_name
              /\ r.doc.metadata = last.metadata.obj.metadata

-----------------------------------------------------------------------------
(* C2 *)

\* C2: a save (replace left at its default) of a document that fails
\* validation against its schema returns None without raising; afterwards
\* the file is not there; the namespace directory is gone when this call
\* created it, and otherwise the file system is as before but for that file.
C2_InvalidSaveRollsBack ==
    [][ ( /\ IsSaveOfMetadata(last')
          /\ last'.flag
          /\ save_name_check(last'.name) = NoExc
          /\ FailsValidation(namespace_schemas, last'.metadata.obj) )
        => /\ last'.exc = NoExc
           /\ last'.path = NoPath
           /\ ~path_exists(fs', Resource(last'.name))
           /\ IF last'.created
              THEN ~fs'[WritableDir].isdir /\ fs'["R"] = fs["R"]
              ELSE fs' = [fs EXCEPT ![WritableDir].files[last'.name] = NoFile] ]_vars

-----------------------------------------------------------------------------
(* C3 *)

\* C3: after a save, whatever its outcome, the file it wrote is not left in
\* the writable directory with a schema_name that the cache does not hold for
\* the namespace, and a directory the call created is not left behind when
\* the call did not return the path.
C3_NoDanglingSchemaName ==
    (last.op = "save" /\ last.wrote /\ last.fault = "none")
    => /\ path_exists(fs, Resource(last.name))
            => FileAt(fs, Resource(last.name)).schema_name
                   \in DOMAIN namespace_schemas[StoreNamespace]
       /\ (last.created /\ last.path = NoPath) => ~fs[WritableDir].isdir

-----------------------------------------------------------------------------
(* C4 *)

\* a save with replace=False that finds its target file in the writable
\* directory
SaveOntoExisting ==
    /\ IsSaveOfMetadata(last')
    /\ ~last'.flag
    /\ save_name_check(last'.name) = NoExc
    /\ path_exists(fs, Resource(last'.name))

\* C4 as stated: save(name, document, replace=False) onto an existing file
\* fails with an error, writes nothing and changes nothing.
C4_FailsWithAlreadyExists ==
    [][ SaveOntoExisting
        => /\ last'.exc # NoExc
           /\ ~last'.wrote
           /\ fs' = fs ]_vars

\* C4, amended: save(name, document, replace=False) onto an existing file
\* raises nothing and returns None; it does not reach the write and leaves the
\* file system and the schema cache as they were.
C4_ReturnsNoneUnchanged ==
    [][ SaveOntoExisting
        => /\ last'.exc = NoExc
           /\ last'.path = NoPath
           /\ ~last'.wrote
           /\ fs' = fs
           /\ namespace_schemas' = namespace_schemas ]_vars

\* a save with replace=False has found its target, next to another document
C4_Witness ==
    /\ IsSaveOfMetadata(last)
    /\ ~last.flag
    /\ last.touched /\ ~last.wrote
    /\ last.path = NoPath
    /\ path_exists(fs, Resource(last.name))
    /\ \E n \in FileNames \ {last.name} : path_exists(fs, Resource(n))
    /\ FileAt(fs, Resource(last.name)) # to_json(last.metadata.obj)

-----------------------------------------------------------------------------
(* C5 *)

\* C5: after remove(name) of a name for which some directory of the search
\* path holds a file, read(name) fails with the not-found error.
C5_RemoveThenReadNotFound ==
    [][ ( /\ last'.op = "remove"
          /\ last'.name # <<>>
          /\ FirstMatch(fs, last'.name) # NoPath )
        => NotFound(read(fs', namespace_schemas', last'.name).exc) ]_vars

-----------------------------------------------------------------------------
(* C6 *)

\* C6: remove(name) of a name for which no directory of the search path
\* holds a file, the empty name included, raises nothing and leaves the file
\* system as it was.
C6_RemoveMissingIsNoOp ==
    [][ ( /\ last'.op = "remove"
          /\ last'.name = <<>> \/ FirstMatch(fs, last'.name) = NoPath )
        => /\ last'.exc = NoExc
           /\ fs' = fs ]_vars

-----------------------------------------------------------------------------
(* C7 *)

\* C7: a listing that returned holds, for every *.json file of the search
\* path: no entry for a file that fails validation against its schema when
\* include_invalid is False, and an entry with a reason when it is True; an
\* entry without a reason, under either flag, for a file that passes.
C7_BulkListing ==
    (last.op = "get_all" /\ last.exc = NoExc)
    => \A p \in JsonPaths(fs) :
          LET entries == {m \in last.list : m.resource = p}
          IN  /\ FailsValidation(namespace_schemas, FileAt(fs, p))
                 => IF last.flag
                    THEN entries # {} /\ \A m \in entries : m.reason # "" /\ m.name = p.name
                    ELSE entries = {}
              /\ PassesValidation(namespace_schemas, FileAt(fs, p))
                 => entries # {} /\ \A m \in entries : m.reason = "" /\ m.name = p.name

\* a listing with include_invalid that returned an invalid document and a
\* valid one
C7_Witness ==
    /\ last.op = "get_all" /\ last.exc = NoExc /\ last.flag
    /\ \E p, q \in JsonPaths(fs) :
          /\ FailsValidation(namespace_schemas, FileAt(fs, p))
          /\ PassesValidation(namespace_schemas, FileAt(fs, q))
          /\ \E m \in last.list : m.resource = p /\ m.reason # ""
          /\ \E m \in last.list : m.resource = q /\ m.reason = ""

-----------------------------------------------------------------------------
(* C8 *)

\* C8: read(name) of a non-empty name fails with the not-found error when no
\* directory holds a file of that name, fails with the validation error when
\* the first file of that name fails validation against its schema, and
\* otherwise returns the document of that name; read of the empty name fails
\* with the error for a missing name.
C8_ReadOutcomes ==
    (last.op = "read")
    => IF last.name = <<>> THEN last.exc = Exc("ValueError", "name")
       ELSE IF FirstMatch(fs, last.name) = NoPath THEN NotFound(last.exc)
       ELSE IF FailsValidation(namespace_schemas, FileAt(fs, FirstMatch(fs, last.name)))
       THEN last.exc.type = "ValidationError"
       ELSE last.exc = NoExc /\ last.doc.name = last.name

-----------------------------------------------------------------------------
(* C9 *)

\* C9: the name check of save accepts exactly the names that follow the
\* identifier rule, among them 'a', 'a-b_c9' and 'foo-bar'.
C9_NameCheckIsIdentifierRule ==
    (nameOut # "unchecked") => (nameOut = "accepted" <=> IdentifierRule(nameIn))

-----------------------------------------------------------------------------
(* C10 *)

IsBlank(name) == \A i \in 1..Len(name) : name[i] = " "

\* C10: read, save and remove of an empty or blank name fail with the error
\* for a bad name before they get to the file system.
C10_BlankNameRejectedFirst ==
    (last.op \in {"read", "save", "remove"} /\ IsBlank(last.name))
    => last.exc.type = "ValueError" /\ ~last.touched

-----------------------------------------------------------------------------
(* C11 *)

\* a file whose JSON object has no schema_name
IsLegacy(json) == json.present /\ json.parses /\ json.schema_name = NoKey

\* C11: a file without schema_name stays loadable.  read(name) of such a file
\* raises nothing and returns the document of that name, a listing holds an
\* entry for every such file, and remove(name) leaves no file at the place
\* the document was found.
C11_LegacyLoadable ==
    [][ /\ ( /\ last'.op = "read"
             /\ last'.name # <<>>
             /\ IsLegacy(FileAt(fs, FirstMatch(fs, last'.name))) )
           => last'.exc = NoExc /\ last'.doc.name = last'.name
        /\ ( /\ last'.op = "get_all" )
           => \A p \in JsonPaths(fs) :
                  IsLegacy(FileAt(fs, p)) => \E m \in last'.list : m.resource = p
        /\ ( /\ last'.op = "remove"
             /\ last'.name # <<>>
             /\ IsLegacy(FileAt(fs, FirstMatch(fs, last'.name))) )
           => /\ last'.exc = NoExc
              /\ ~path_exists(fs', FirstMatch(fs, last'.name)) ]_vars

-----------------------------------------------------------------------------
(* C12 *)

\* C12: save of a valid document under a valid name, made while the writable
\* directory is not there, creates that directory, writes the file into it
\* and returns its path, also when the additional root has the namespace.
C12_SaveCreatesWritableDir ==
    [][ ( /\ IsSaveOfMetadata(last')
          /\ save_name_check(last'.name) = NoExc
          /\ PassesValidation(namespace_schemas, last'.metadata.obj)
          /\ ~fs[WritableDir].isdir )
        => /\ last'.exc = NoExc
           /\ last'.path = Resource(last'.name)
           /\ fs'[WritableDir].isdir
           /\ FileAt(fs', Resource(last'.name)) = to_json(last'.metadata.obj) ]_vars

-----------------------------------------------------------------------------
(* C13 *)

\* the exceptions that stand for a failure of the file system
IOFailures == {"OSError", "PermissionError", "FileNotFoundError"}

\* C13: a save whose write step fails raises a file-system error instead of
\* returning a path, and leaves neither a file of that name nor a directory
\* that the call created.
C13_WriteFaultPropagates ==
    [][ ( /\ last'.op = "save"
          /\ last'.wrote
          /\ last'.fault # "none" )
        => /\ last'.exc.type \in IOFailures
           /\ last'.path = NoPath
           /\ ~path_exists(fs', Resource(last'.name))
           /\ last'.created => ~fs'[WritableDir].isdir ]_vars

-----------------------------------------------------------------------------
(* C14 *)

\* C14: get_schema(namespace, schema_name) fails with the unknown-namespace
\* error when the cache lacks the namespace, whatever the name; fails with
\* the schema-not-found error when the namespace lacks the name; and
\* otherwise returns what the cache holds under the two.
C14_GetSchemaOutcomes ==
    (last.op = "get_schema")
    => IF last.namespace \notin DOMAIN namespace_schemas
       THEN last.exc = Exc("ValueError", "namespace")
       ELSE IF last.schema_name \notin DOMAIN namespace_schemas[last.namespace]
       THEN last.exc = Exc("KeyError", "schema")
       ELSE /\ last.exc = NoExc
            /\ last.val = namespace_schemas[last.namespace][last.schema_name]

\* get_schema has returned a schema that add_schema put over the one of the
\* schema file, in a cache that remove_schema has taken a name from
C14_Witness ==
    /\ last.op = "get_schema"
    /\ last.exc = NoExc
    /\ last.namespace = NAMESPACE_RUNTIMES
    /\ last.schema_name = "s2"
    /\ last.val = AnySchema
    /\ "kfp" \notin DOMAIN namespace_schemas[NAMESPACE_RUNTIMES]

-----------------------------------------------------------------------------
(* C15 *)

\* C15: once the cache is loaded, no step changes whether the testing
\* namespace is a valid namespace, whatever happens to METADATA_TESTING.
C15_FlagReadOnce ==
    [][ is_valid_namespace(namespace_schemas', METADATA_TEST_NAMESPACE)
        = is_valid_namespace(namespace_schemas, METADATA_TEST_NAMESPACE) ]_vars

-----------------------------------------------------------------------------
(* C16 *)

\* C16: a get_schema call that runs beside add_schema, remove_schema and
\* clear_all calls, none of which caches None, ends as it could in some
\* serial order: with a schema, or with the unknown-namespace or the
\* schema-not-found error; it does not return None and raises nothing else.
C16_GetSchemaSerialized ==
    (getter.pc = "done")
    => \/ getter.exc \in {Exc("ValueError", "namespace"), Exc("KeyError", "schema")}
       \/ getter.exc = NoExc /\ ~getter.val.null

-----------------------------------------------------------------------------
(* C17 *)

AllDone == thr # NoThreads /\ \A t \in Threads : thr[t].pc = "done"

\* C17: when two saves of one name, with replace and with valid documents,
\* into a namespace directory that was there have both ended, the file holds
\* the whole text of one of the two documents, or there is no file.
C17_OneWritersContent ==
    ( /\ AllDone
      /\ thr[1].name = thr[2].name
      /\ \A t \in Threads :
            /\ thr[t].replace
            /\ ~thr[t].created
            /\ PassesValidation(namespace_schemas, thr[t].metadata) )
    => FileAt(fs, Resource(thr[1].name))
           \in {NoFile, to_json(thr[1].metadata), to_json(thr[2].metadata)}

-----------------------------------------------------------------------------
(* C19 *)

\* C19: when two saves of different names, at least one of which has created
\* the namespace directory, have both ended, the file of every save that
\* returned its path is there.
C19_RollbackSparesOtherSaves ==
    ( /\ AllDone
      /\ thr[1].name # thr[2].name
      /\ \E t \in Threads : thr[t].created )
    => \A t \in Threads :
          thr[t].path # NoPath => path_exists(fs, Resource(thr[t].name))

-----------------------------------------------------------------------------
(* C18 *)

\* C18: a read(name) that returned has returned the document of the first
\* directory of the search path that holds a file of that name: its resource
\* is that file and its content is that file's.
C18_FirstMatchWins ==
    (last.op = "read" /\ last.exc = NoExc)
    => /\ last.doc.name = last.name
       /\ last.doc.resource.name = last.name
       /\ path_exists(fs, last.doc.resource)
       /\ \A i \in 1..Len(SearchPath) :
             SearchPath[i] = last.doc.resource.dir
             => \A j \in 1..(i - 1) : ~path_exists(fs, Path(SearchPath[j], last.name))
       /\ to_json(last.doc) = FileAt(fs, last.doc.resource)

\* a read has returned while both directories held a file of the name, with
\* different contents
C18_Witness ==
    /\ last.op = "read" /\ last.exc = NoExc
    /\ \A d \in Dirs : path_exists(fs, Path(d, last.name))
    /\ FileAt(fs, Path(WritableDir, last.name)) # FileAt(fs, Path("R", last.name))
    /\ last.doc.resource = Path(WritableDir, last.name)

-----------------------------------------------------------------------------
(* C20 *)

\* C20: read, save, remove and the listings leave the schema cache as it was.
C20_StoreLeavesCacheAlone ==
    [][ last'.op \in {"read", "save", "remove", "get_all"}
        => namespace_schemas' = namespace_schemas ]_vars

-----------------------------------------------------------------------------
(* C21 *)

\* a save with replace that found its target file in the writable directory
\* and whose document fails validation against its schema
InvalidSaveOverExisting ==
    /\ IsSaveOfMetadata(last')
    /\ last'.flag
    /\ save_name_check(last'.name) = NoExc
    /\ path_exists(fs, Resource(last'.name))
    /\ FailsValidation(namespace_schemas, last'.metadata.obj)

\* C21 as stated: a save with replace over an existing document, of a
\* document that fails validation, returns None without raising; the old
\* file is not restored, no file of that name is left in the writable
\* directory, and a read(name) that follows fails with the not-found error.
C21_ReadAfterwardsNotFound ==
    [][ InvalidSaveOverExisting
        => /\ last'.exc = NoExc
           /\ last'.path = NoPath
           /\ ~path_exists(fs', Resource(last'.name))
           /\ NotFound(read(fs', namespace_schemas', last'.name).exc) ]_vars

\* C21, amended: such a save returns None without raising and leaves the
\* file system as it was but for the file of that name in the writable
\* directory, which is gone.  A read(name) that follows fails with the
\* not-found error when no other directory of the search path holds a file
\* of that name, and otherwise does not: it goes to that other file.
C21_OldDocumentGone ==
    [][ InvalidSaveOverExisting
        => /\ last'.exc = NoExc
           /\ last'.path = NoPath
           /\ fs' = [fs EXCEPT ![WritableDir].files[last'.name] = NoFile]
           /\ NotFound(read(fs', namespace_schemas', last'.name).exc)
              <=> \A d \in Dirs \ {WritableDir} : ~path_exists(fs, Path(d, last'.name)) ]_vars

\* a save with replace has removed the document it found and has rolled its
\* own invalid document back, while the other root holds a file of the name
C21_Witness ==
    /\ IsSaveOfMetadata(last)
    /\ last.flag /\ last.existed /\ last.wrote
    /\ last.exc = NoExc /\ last.path = NoPath
    /\ fs[WritableDir].isdir
    /\ ~path_exists(fs, Resource(last.name))
    /\ path_exists(fs, Path("R", last.name))

-----------------------------------------------------------------------------
(* C22 *)

NoNamespaceDir(f) == \A d \in Dirs : ~f[d].isdir

\* C22: a listing, and a read of a non-empty name, made while no directory
\* of the search path is there fail with the not-found error of the
\* namespace; a listing made while a directory is there and none holds a
\* *.json file returns the empty list; and after a save that created the
\* namespace directory and rolled its document back a listing fails with
\* that error.
C22_MissingNamespaceNotFound ==
    [][ /\ ( /\ last'.op = "get_all" \/ (last'.op = "read" /\ last'.name # <<>>)
             /\ NoNamespaceDir(fs) )
           => last'.exc = Exc("KeyError", "namespace")
        /\ ( /\ last'.op = "get_all"
             /\ ~NoNamespaceDir(fs)
             /\ JsonPaths(fs) = {} )
           => last'.exc = NoExc /\ last'.list = {}
        /\ ( /\ IsSaveOfMetadata(last')
             /\ last'.created
             /\ last'.exc = NoExc
             /\ last'.path = NoPath )
           => \A include_invalid \in BOOLEAN :
                 get_all_metadata_summary(fs', namespace_schemas', include_invalid).exc
                     = Exc("KeyError", "namespace") ]_vars

\* a listing has failed for want of a namespace directory
C22_Witness ==
    /\ last.op = "get_all"
    /\ last.exc = Exc("KeyError", "namespace")
    /\ last.list = {}
    /\ NoNamespaceDir(fs)

=============================================================================
